---- MODULE Spec2Model ----
(***************************************************************************)
(* The rule engine of src/Q2.py: the condition evaluator                   *)
(* (validate_condition), the rule matcher (check_rule_match), the resolver *)
(* (execute_rules), the shipped catalog (DEFAULT_CONDITIONS) and the       *)
(* Streamlit page that builds the facts and calls the resolver.            *)
(*                                                                         *)
(* Python values are tagged records: a bool is a number (True == 1), text  *)
(* is ordered lexicographically, None is a value of its own.  A call that  *)
(* raises is the outcome "TypeError", next to "True" and "False".          *)
(***************************************************************************)
EXTENDS Integers, Sequences, FiniteSets, TLC

VARIABLES rules, facts, result, pc, idx, matched_rules

vars == <<rules, facts, result, pc, idx, matched_rules>>

-----------------------------------------------------------------------------
(* Bounds of the model *)

MaxTemperature == 33
MaxHumidity == 80
MaxRules == 3
MaxCallers == 2
MaxSharedRules == 2

-----------------------------------------------------------------------------
(* Python values *)

PyBool(b) == [tag |-> "bool", n |-> IF b THEN 1 ELSE 0, s |-> ""]
PyInt(n) == [tag |-> "int", n |-> n, s |-> ""]
PyStr(s) == [tag |-> "str", n |-> 0, s |-> s]
None == [tag |-> "None", n |-> 0, s |-> ""]

IsNumber(v) == v.tag \in {"bool", "int"}
IsText(v) == v.tag = "str"

\* The texts of the program, in Python's (lexicographic) str order.
Texts == <<"AFTERNOON", "EMPTY", "EVENING", "MORNING", "NIGHT", "OCCUPIED">>

TextRank(s) == CHOOSE i \in 1..Len(Texts) : Texts[i] = s

\* operator.eq: never raises; values of unrelated types are unequal.
operator_eq(a, b) ==
    IF IsNumber(a) /\ IsNumber(b) THEN a.n = b.n
    ELSE IF IsText(a) /\ IsText(b) THEN a.s = b.s
    ELSE a.tag = "None" /\ b.tag = "None"

\* operator.lt where it is defined (both numbers, or both text).
operator_lt(a, b) ==
    IF IsNumber(a) THEN a.n < b.n ELSE TextRank(a.s) < TextRank(b.s)

\* Whether Python orders the two values at all; if not, <, <=, >, >= raise.
Orderable(a, b) ==
    \/ IsNumber(a) /\ IsNumber(b)
    \/ IsText(a) /\ IsText(b)

Outcome(b) == IF b THEN "True" ELSE "False"

COMPARISONS == {"==", "!=", ">", ">=", "<", "<="}

\* Mutant: the table maps "<" to operator.le.
Compare_lt_as_le(op, a, b) ==
    IF op = "==" THEN Outcome(operator_eq(a, b))
    ELSE IF op = "!=" THEN Outcome(~operator_eq(a, b))
    ELSE IF ~Orderable(a, b) THEN "TypeError"
    ELSE IF op = ">" THEN Outcome(operator_lt(b, a))
    ELSE IF op = ">=" THEN Outcome(~operator_lt(a, b))
    ELSE Outcome(~operator_lt(b, a))

\* COMPARISONS[op](a, b)
Compare(op, a, b) ==
    IF op = "==" THEN Outcome(operator_eq(a, b))
    ELSE IF op = "!=" THEN Outcome(~operator_eq(a, b))
    ELSE IF ~Orderable(a, b) THEN "TypeError"
    ELSE IF op = ">" THEN Outcome(operator_lt(b, a))
    ELSE IF op = ">=" THEN Outcome(~operator_lt(a, b))
    ELSE IF op = "<" THEN Outcome(operator_lt(a, b))
    ELSE Outcome(~operator_lt(b, a))

-----------------------------------------------------------------------------
(* The engine *)

\* Mutant: a missing field or an unknown operator lets the condition pass.
validate_condition_failopen(f, condition) ==
    LET field == condition[1]
        op == condition[2]
        value == condition[3]
    IN  IF field \notin DOMAIN f \/ op \notin COMPARISONS
        THEN "True"
        ELSE Compare(op, f[field], value)

\* A condition is the triple <<field, op, value>>.
validate_condition(f, condition) ==
    LET field == condition[1]
        op == condition[2]
        value == condition[3]
    IN  IF field \notin DOMAIN f \/ op \notin COMPARISONS
        THEN "False"
        ELSE Compare(op, f[field], value)

\* all(...) over a generator: stops at the first false condition, and a
\* condition that raises before that ends the call.
RECURSIVE all_from(_, _, _)
all_from(f, conds, i) ==
    IF i > Len(conds) THEN "True"
    ELSE LET r == validate_condition(f, conds[i])
         IN  IF r = "True" THEN all_from(f, conds, i + 1) ELSE r

\* Mutant: any(...) in place of all(...).
RECURSIVE any_from(_, _, _)
any_from(f, conds, i) ==
    IF i > Len(conds) THEN "False"
    ELSE LET r == validate_condition(f, conds[i])
         IN  IF r = "False" THEN any_from(f, conds, i + 1) ELSE r

check_rule_match_any(f, rule) == any_from(f, rule.trigger_conditions, 1)

check_rule_match(f, rule) == all_from(f, rule.trigger_conditions, 1)

\* [rule for rule in rules if check_rule_match(facts, rule)]
RECURSIVE matching_from(_, _, _)
matching_from(f, rs, i) ==
    IF i > Len(rs) THEN [raised |-> FALSE, list |-> <<>>]
    ELSE LET r == check_rule_match(f, rs[i])
         IN  IF r = "TypeError" THEN [raised |-> TRUE, list |-> <<>>]
             ELSE LET rest == matching_from(f, rs, i + 1)
                  IN  IF rest.raised THEN rest
                      ELSE IF r = "True"
                           THEN [raised |-> FALSE, list |-> <<rs[i]>> \o rest.list]
                           ELSE rest

\* Mutant: equal priorities come out in reverse catalog order.
InsertAt_unstable(s, r) ==
    Cardinality({k \in 1..Len(s) : s[k].rule_priority > r.rule_priority}) + 1

\* Mutant: reverse=True is missing, the sort is ascending.
InsertAt_ascending(s, r) ==
    Cardinality({k \in 1..Len(s) : s[k].rule_priority <= r.rule_priority}) + 1

\* Where a stable descending sort puts rule r in the sorted sequence s: after
\* every rule whose priority is at least r's.
InsertAt(s, r) ==
    Cardinality({k \in 1..Len(s) : s[k].rule_priority >= r.rule_priority}) + 1

Insert(s, r) ==
    LET p == InsertAt(s, r)
    IN  SubSeq(s, 1, p - 1) \o <<r>> \o SubSeq(s, p, Len(s))

\* sorted(rs, key=lambda r: r["rule_priority"], reverse=True)
RECURSIVE sorted_by_priority(_)
sorted_by_priority(rs) ==
    IF rs = <<>> THEN <<>>
    ELSE Insert(sorted_by_priority(SubSeq(rs, 1, Len(rs) - 1)), rs[Len(rs)])

NoResult == [status |-> "none", action |-> None, matched |-> <<>>, winning |-> None]
Raised == [status |-> "TypeError", action |-> None, matched |-> <<>>, winning |-> None]

DefaultAction ==
    [mode |-> "OFF", fan_speed |-> "LOW", setpoint |-> None,
     reason |-> "No matching rules"]

\* Mutant: the catalog itself is sorted in place (rules.sort(...)).
select_winner_inplace(rs, matched) ==
    IF matched = <<>>
    THEN [ret |-> [status |-> "returned", action |-> DefaultAction,
                   matched |-> <<>>, winning |-> None],
          rules |-> rs]
    ELSE LET matched_rules_sorted == sorted_by_priority(matched)
             winning_rule == matched_rules_sorted[1]
         IN  [ret |-> [status |-> "returned", action |-> winning_rule.ac_action,
                       matched |-> matched_rules_sorted, winning |-> winning_rule],
              rules |-> sorted_by_priority(rs)]

\* The second half of execute_rules: what is returned for the matched rules,
\* and the catalog as the call leaves it (sorted() builds a new list).
select_winner(rs, matched) ==
    IF matched = <<>>
    THEN [ret |-> [status |-> "returned", action |-> DefaultAction,
                   matched |-> <<>>, winning |-> None],
          rules |-> rs]
    ELSE LET matched_rules_sorted == sorted_by_priority(matched)
             winning_rule == matched_rules_sorted[1]
         IN  [ret |-> [status |-> "returned", action |-> winning_rule.ac_action,
                       matched |-> matched_rules_sorted, winning |-> winning_rule],
              rules |-> rs]

\* One whole call: its return value (or the error it raises), and the catalog
\* and the facts as the call leaves them.
execute_rules(f, rs) ==
    LET m == matching_from(f, rs, 1)
    IN  IF m.raised
        THEN [ret |-> Raised, rules |-> rs, facts |-> f]
        ELSE LET out == select_winner(rs, m.list)
             IN  [ret |-> out.ret, rules |-> out.rules, facts |-> f]

-----------------------------------------------------------------------------
(* The shipped catalog.  The arrow of the rule names is written "->". *)

Rule(name, priority, conditions, action) ==
    [rule_name |-> name, rule_priority |-> priority,
     trigger_conditions |-> conditions, ac_action |-> action]

Action(mode, fan_speed, setpoint, reason) ==
    [mode |-> mode, fan_speed |-> fan_speed, setpoint |-> setpoint,
     reason |-> reason]

WindowsOpenRule ==
    Rule("Windows open -> turn off AC", 100,
         << <<"windows_open", "==", PyBool(TRUE)>> >>,
         Action("OFF", "LOW", None, "Windows are open"))

NoOneHomeRule ==
    Rule("No one home -> eco mode", 90,
         << <<"occupancy", "==", PyStr("EMPTY")>>,
            <<"temperature", ">=", PyInt(24)>> >>,
         Action("ECO", "LOW", PyInt(27), "Home empty, save energy"))

TooColdRule ==
    Rule("Too cold -> turn off AC", 85,
         << <<"temperature", "<=", PyInt(22)>> >>,
         Action("OFF", "LOW", None, "Already cold"))

HotHumidRule ==
    Rule("Hot & humid (occupied) -> strong cooling", 80,
         << <<"occupancy", "==", PyStr("OCCUPIED")>>,
            <<"temperature", ">=", PyInt(30)>>,
            <<"humidity", ">=", PyInt(70)>> >>,
         Action("COOL", "HIGH", PyInt(23), "Hot and humid"))

NightRule ==
    Rule("Night (occupied) -> sleep mode", 75,
         << <<"occupancy", "==", PyStr("OCCUPIED")>>,
            <<"time_of_day", "==", PyStr("NIGHT")>>,
            <<"temperature", ">=", PyInt(26)>> >>,
         Action("SLEEP", "LOW", PyInt(26), "Night comfort"))

HotRule ==
    Rule("Hot (occupied) -> cool", 70,
         << <<"occupancy", "==", PyStr("OCCUPIED")>>,
            <<"temperature", ">=", PyInt(28)>> >>,
         Action("COOL", "MEDIUM", PyInt(24), "Temperature high"))

SlightlyWarmRule ==
    Rule("Slightly warm (occupied) -> gentle cool", 60,
         << <<"occupancy", "==", PyStr("OCCUPIED")>>,
            <<"temperature", ">=", PyInt(26)>>,
            <<"temperature", "<", PyInt(28)>> >>,
         Action("COOL", "LOW", PyInt(25), "Slightly warm"))

DEFAULT_CONDITIONS ==
    <<WindowsOpenRule, NoOneHomeRule, TooColdRule, HotHumidRule, NightRule,
      HotRule, SlightlyWarmRule>>

-----------------------------------------------------------------------------
(* The page: one session whose widgets hold the facts; every widget change *)
(* reruns the script without the button, so no result is shown; the button *)
(* reruns it with the call of execute_rules.                               *)

Session == 1

Temperatures == 20..MaxTemperature
Humidities == 45..MaxHumidity
Occupancies == {"OCCUPIED", "EMPTY"}
TimesOfDay == {"MORNING", "AFTERNOON", "EVENING", "NIGHT"}

facts_data(temperature, humidity, occupancy, time_of_day, windows_open) ==
    [field \in {"temperature", "humidity", "occupancy", "time_of_day",
                "windows_open"} |->
        CASE field = "temperature" -> PyInt(temperature)
          [] field = "humidity" -> PyInt(humidity)
          [] field = "occupancy" -> PyStr(occupancy)
          [] field = "time_of_day" -> PyStr(time_of_day)
          [] field = "windows_open" -> PyBool(windows_open)]

Init ==
    /\ rules = DEFAULT_CONDITIONS
    /\ facts = [c \in {Session} |-> facts_data(22, 46, "OCCUPIED", "NIGHT", FALSE)]
    /\ result = [c \in {Session} |-> NoResult]
    /\ pc = [c \in {Session} |-> "idle"]
    /\ idx = [c \in {Session} |-> 1]
    /\ matched_rules = [c \in {Session} |-> <<>>]

\* A rerun of the script caused by a widget: the facts change, nothing is
\* evaluated.
Rerun(field, value) ==
    /\ facts' = [facts EXCEPT ![Session][field] = value]
    /\ result' = [result EXCEPT ![Session] = NoResult]
    /\ UNCHANGED <<rules, pc, idx, matched_rules>>

SetTemperature == \E v \in Temperatures : Rerun("temperature", PyInt(v))
SetHumidity == \E v \in Humidities : Rerun("humidity", PyInt(v))
SetOccupancy == \E v \in Occupancies : Rerun("occupancy", PyStr(v))
SetTimeOfDay == \E v \in TimesOfDay : Rerun("time_of_day", PyStr(v))
SetWindowsOpen == \E v \in BOOLEAN : Rerun("windows_open", PyBool(v))

\* One whole call of execute_rules by caller c.
Call(c) ==
    LET out == execute_rules(facts[c], rules)
    IN  /\ result' = [result EXCEPT ![c] = out.ret]
        /\ rules' = out.rules
        /\ facts' = [facts EXCEPT ![c] = out.facts]
        /\ UNCHANGED <<pc, idx, matched_rules>>

PressEvaluate == Call(Session)

Next ==
    \/ SetTemperature
    \/ SetHumidity
    \/ SetOccupancy
    \/ SetTimeOfDay
    \/ SetWindowsOpen
    \/ PressEvaluate

Spec == Init /\ [][Next]_vars

-----------------------------------------------------------------------------
(* The engine on any catalog and any facts: a caller draws a catalog and a *)
(* fact mapping, resolves, and may supply new facts.                       *)

Fields == {"temperature", "occupancy"}

Values == {PyInt(26), PyInt(28), PyStr("OCCUPIED"), PyStr("EMPTY"), PyBool(TRUE)}

\* Every mapping of some of the fields to values.
FactMappings == UNION {[D -> Values] : D \in SUBSET Fields}

\* The operators a condition may name: the supported ones and two others.
Operators == COMPARISONS \cup {"between", "="}

\* The conditions the evaluator is tried on; "humidity" is in no fact mapping.
Conditions == (Fields \cup {"humidity"}) \X Operators \X Values

OccupiedRule ==
    Rule("occupied", 50,
         << <<"occupancy", "==", PyStr("OCCUPIED")>> >>,
         Action("COOL", "LOW", PyInt(25), "occupied"))

WarmRule ==
    Rule("warm", 50,
         << <<"temperature", ">=", PyInt(26)>> >>,
         Action("COOL", "MEDIUM", PyInt(24), "warm"))

BandRule ==
    Rule("band", 60,
         << <<"temperature", ">=", PyInt(26)>>,
            <<"temperature", "<", PyInt(28)>>,
            <<"occupancy", "==", PyStr("OCCUPIED")>> >>,
         Action("COOL", "HIGH", PyInt(23), "band"))

AlwaysRule ==
    Rule("always", 50, <<>>, Action("ECO", "LOW", PyInt(27), "always"))

MalformedRule ==
    Rule("malformed", 70,
         << <<"occupancy", "==", PyStr("OCCUPIED")>>,
            <<"temperature", "between", PyInt(26)>> >>,
         Action("SLEEP", "LOW", PyInt(26), "malformed"))

MixedRule ==
    Rule("mixed", 40,
         << <<"temperature", "!=", PyInt(28)>>,
            <<"occupancy", ">", PyInt(24)>>,
            <<"humidity", "<=", PyInt(80)>> >>,
         Action("OFF", "LOW", None, "mixed"))

RulePool ==
    {OccupiedRule, WarmRule, BandRule, AlwaysRule, MalformedRule, MixedRule}

Catalogs == UNION {[1..n -> RulePool] : n \in 0..MaxRules}

Caller == 1

InitGen ==
    /\ rules \in Catalogs
    /\ facts \in [{Caller} -> FactMappings]
    /\ result = [c \in {Caller} |-> NoResult]
    /\ pc = [c \in {Caller} |-> "idle"]
    /\ idx = [c \in {Caller} |-> 1]
    /\ matched_rules = [c \in {Caller} |-> <<>>]

Resolve == Call(Caller)

\* The caller builds a fresh fact mapping for its next call.
Supply ==
    \E f \in FactMappings :
        /\ facts' = [facts EXCEPT ![Caller] = f]
        /\ result' = [result EXCEPT ![Caller] = NoResult]
        /\ UNCHANGED <<rules, pc, idx, matched_rules>>

NextGen == Resolve \/ Supply

SpecGen == InitGen /\ [][NextGen]_vars

-----------------------------------------------------------------------------
(* Several callers sharing one catalog.  A call is interleaved with the    *)
(* others rule by rule: the comprehension reads the catalog at position    *)
(* idx, and the last step sorts, selects and returns.                      *)

Callers == 1..MaxCallers

SharedPool == {OccupiedRule, BandRule, MixedRule}

SharedCatalogs == UNION {[1..n -> SharedPool] : n \in 0..MaxSharedRules}

SharedFacts ==
    {[field \in Fields |->
         IF field = "temperature" THEN PyInt(26) ELSE PyStr("OCCUPIED")],
     [field \in Fields |->
         IF field = "temperature" THEN PyInt(28) ELSE PyStr("OCCUPIED")],
     [field \in {"occupancy"} |-> PyBool(TRUE)]}

InitShared ==
    /\ rules \in SharedCatalogs
    /\ facts = [c \in Callers |-> <<>>]
    /\ result = [c \in Callers |-> NoResult]
    /\ pc = [c \in Callers |-> "idle"]
    /\ idx = [c \in Callers |-> 1]
    /\ matched_rules = [c \in Callers |-> <<>>]

Invoke(c) ==
    \E f \in SharedFacts :
        /\ pc[c] \in {"idle", "done"}
        /\ facts' = [facts EXCEPT ![c] = f]
        /\ pc' = [pc EXCEPT ![c] = "matching"]
        /\ idx' = [idx EXCEPT ![c] = 1]
        /\ matched_rules' = [matched_rules EXCEPT ![c] = <<>>]
        /\ result' = [result EXCEPT ![c] = NoResult]
        /\ UNCHANGED rules

\* One turn of the comprehension: the rule at idx is tested, and kept if it
\* matches; a TypeError ends the call.
MatchStep(c) ==
    /\ pc[c] = "matching"
    /\ idx[c] <= Len(rules)
    /\ LET r == check_rule_match(facts[c], rules[idx[c]])
       IN  /\ pc' = [pc EXCEPT ![c] = IF r = "TypeError" THEN "done" ELSE @]
           /\ result' = [result EXCEPT ![c] = IF r = "TypeError" THEN Raised ELSE @]
           /\ matched_rules' =
                  [matched_rules EXCEPT
                      ![c] = IF r = "True" THEN Append(@, rules[idx[c]]) ELSE @]
           /\ idx' = [idx EXCEPT ![c] = @ + 1]
    /\ UNCHANGED <<rules, facts>>

\* The comprehension is exhausted: sort, select, return.
Return(c) ==
    /\ pc[c] = "matching"
    /\ idx[c] > Len(rules)
    /\ LET out == select_winner(rules, matched_rules[c])
       IN  /\ result' = [result EXCEPT ![c] = out.ret]
           /\ rules' = out.rules
    /\ pc' = [pc EXCEPT ![c] = "done"]
    /\ UNCHANGED <<facts, idx, matched_rules>>

NextShared == \E c \in Callers : Invoke(c) \/ MatchStep(c) \/ Return(c)

SpecShared == InitShared /\ [][NextShared]_vars

-----------------------------------------------------------------------------
(* Properties *)

Returned(c) == result[c].status = "returned"

\* The condition cannot be evaluated on f: its field is missing or its
\* operator is not in the table.
Unevaluable(f, cond) == cond[1] \notin DOMAIN f \/ cond[2] \notin COMPARISONS

\* The condition is evaluated on f and Python cannot order the two values.
TypeMismatch(f, cond) ==
    /\ ~Unevaluable(f, cond)
    /\ cond[2] \in {">", ">=", "<", "<="}
    /\ ~Orderable(f[cond[1]], cond[3])

AllConditionsTrue(f, rule) ==
    \A k \in 1..Len(rule.trigger_conditions) :
        validate_condition(f, rule.trigger_conditions[k]) = "True"

InMatched(c, rule) ==
    \E j \in 1..Len(result[c].matched) : result[c].matched[j] = rule

\* C1: a condition whose field is absent from the facts, or whose operator is
\* not one of the six supported, evaluates to false without raising, and a
\* rule holding such a condition never matches: check_rule_match is not true
\* of it and it is in no matched_rules that execute_rules returns.
C1_FailClosed ==
    \A c \in DOMAIN facts :
        /\ \A cond \in Conditions :
               Unevaluable(facts[c], cond)
                   => validate_condition(facts[c], cond) = "False"
        /\ \A i \in 1..Len(rules) :
               (\E k \in 1..Len(rules[i].trigger_conditions) :
                    Unevaluable(facts[c], rules[i].trigger_conditions[k]))
                   => /\ check_rule_match(facts[c], rules[i]) # "True"
                      /\ Returned(c) => ~InMatched(c, rules[i])

\* C1 witness: a call has returned on a catalog with a rule whose first
\* condition is true and whose second names an unsupported operator, next to
\* a rule that did match.
C1_Witness ==
    /\ Returned(Caller)
    /\ result[Caller].matched # <<>>
    /\ \E i \in 1..Len(rules) :
           /\ Len(rules[i].trigger_conditions) = 2
           /\ validate_condition(facts[Caller], rules[i].trigger_conditions[1]) = "True"
           /\ rules[i].trigger_conditions[2][2] \notin COMPARISONS

\* C2: a condition whose field is present and whose operator is supported,
\* but whose two values Python cannot order, evaluates to false, and no call
\* of execute_rules ends in a TypeError.
C2_TypeMismatchFailsClosed ==
    \A c \in DOMAIN facts :
        result[c].status # "none"
            => /\ result[c].status # "TypeError"
               /\ \A i \in 1..Len(rules) :
                      \A k \in 1..Len(rules[i].trigger_conditions) :
                          TypeMismatch(facts[c], rules[i].trigger_conditions[k])
                              => validate_condition(
                                     facts[c], rules[i].trigger_conditions[k]) = "False"

\* C3: every call of execute_rules on well-formed facts and a well-formed
\* catalog returns normally, with an action that is not None.
C3_Totality ==
    \A c \in DOMAIN facts :
        result[c].status # "none"
            => /\ result[c].status = "returned"
               /\ result[c].action # None

\* C4: the matched_rules a call returns are in non-increasing priority, and
\* the rules of one priority among them are exactly the matching rules of
\* that priority in catalog order.
C4_SortedStable ==
    \A c \in DOMAIN facts :
        Returned(c) =>
            LET m == result[c].matched
            IN  /\ \A i, j \in 1..Len(m) :
                       i < j => m[i].rule_priority >= m[j].rule_priority
                /\ \A p \in {rules[i].rule_priority : i \in 1..Len(rules)} :
                       LET Has(r) == r.rule_priority = p
                           Matches(r) ==
                               /\ r.rule_priority = p
                               /\ check_rule_match(facts[c], r) = "True"
                       IN  SelectSeq(m, Has) = SelectSeq(rules, Matches)

\* C4 witness: three rules matched, the sort moved the catalog's last rule
\* to the front, and two different rules of equal priority follow it.
C4_Witness ==
    /\ Returned(Caller)
    /\ Len(result[Caller].matched) = 3
    /\ Len(rules) = 3
    /\ result[Caller].matched[1] = rules[3]
    /\ result[Caller].matched[1].rule_priority > result[Caller].matched[2].rule_priority
    /\ result[Caller].matched[2].rule_priority = result[Caller].matched[3].rule_priority
    /\ result[Caller].matched[2] # result[Caller].matched[3]

\* C5: check_rule_match is true of a rule exactly when every one of its
\* conditions evaluates to true (so always for a rule without conditions),
\* and the rules a call returns as matched are exactly those rules.
C5_AndSemantics ==
    \A c \in DOMAIN facts :
        \A i \in 1..Len(rules) :
            /\ (check_rule_match(facts[c], rules[i]) = "True")
                   <=> AllConditionsTrue(facts[c], rules[i])
            /\ Returned(c)
                   => (InMatched(c, rules[i]) <=> AllConditionsTrue(facts[c], rules[i]))

\* C5 witness: a call has returned; a rule with three conditions, two true
\* and one false, is not matched, and a rule without conditions is.
C5_Witness ==
    /\ Returned(Caller)
    /\ \E i \in 1..Len(rules) :
           /\ Len(rules[i].trigger_conditions) = 3
           /\ Cardinality({k \in 1..3 :
                 validate_condition(facts[Caller], rules[i].trigger_conditions[k])
                     = "True"}) = 2
           /\ Cardinality({k \in 1..3 :
                 validate_condition(facts[Caller], rules[i].trigger_conditions[k])
                     = "False"}) = 1
           /\ ~InMatched(Caller, rules[i])
    /\ \E i \in 1..Len(rules) :
           /\ rules[i].trigger_conditions = <<>>
           /\ InMatched(Caller, rules[i])

\* C6: after every call, if some rule of the catalog matches, the call has
\* returned the first of the sorted matched rules as the winner, with its
\* action; if none matches, it has returned the default action, no matched
\* rules and no winner; the winner is absent exactly when nothing matched.
C6_SelectionAndFallback ==
    \A c \in DOMAIN facts :
        result[c].status # "none" =>
            LET some == \E i \in 1..Len(rules) :
                            check_rule_match(facts[c], rules[i]) = "True"
            IN  /\ Returned(c)
                /\ some => /\ result[c].matched # <<>>
                           /\ result[c].winning = result[c].matched[1]
                           /\ result[c].action = result[c].matched[1].ac_action
                /\ ~some => /\ result[c].action =
                                   [mode |-> "OFF", fan_speed |-> "LOW",
                                    setpoint |-> None,
                                    reason |-> "No matching rules"]
                            /\ result[c].matched = <<>>
                            /\ result[c].winning = None
                /\ (result[c].winning = None) <=> (result[c].matched = <<>>)

\* C7: on the shipped catalog, every evaluation with windows_open true is won
\* by "Windows open -> turn off AC", priority 100, with the action OFF, LOW,
\* no setpoint, "Windows are open".
C7_WindowsOpenWins ==
    (result[Session].status # "none"
        /\ facts[Session]["windows_open"] = PyBool(TRUE))
    => /\ Returned(Session)
       /\ result[Session].winning # None
       /\ result[Session].winning.rule_name = "Windows open -> turn off AC"
       /\ result[Session].winning.rule_priority = 100
       /\ result[Session].action =
              [mode |-> "OFF", fan_speed |-> "LOW", setpoint |-> None,
               reason |-> "Windows are open"]

\* C7 witness: the evaluation of temperature 32, humidity 80, OCCUPIED, NIGHT,
\* windows open, where the hot-and-humid, night and hot rules match as well.
C7_Witness ==
    /\ Returned(Session)
    /\ facts[Session] = facts_data(32, 80, "OCCUPIED", "NIGHT", TRUE)
    /\ Len(result[Session].matched) = 4
    /\ \A n \in {"Hot & humid (occupied) -> strong cooling",
                 "Night (occupied) -> sleep mode", "Hot (occupied) -> cool"} :
           \E j \in 1..4 : result[Session].matched[j].rule_name = n

MatchedByName(name) ==
    \E j \in 1..Len(result[Session].matched) :
        result[Session].matched[j].rule_name = name

\* C8: on the shipped catalog, OCCUPIED, AFTERNOON, windows closed, humidity
\* 50: at temperature 26 the winner is "Slightly warm (occupied) -> gentle
\* cool", priority 60, action COOL, LOW, setpoint 25, and nothing of higher
\* priority matches; at temperature 28 the winner is "Hot (occupied) -> cool",
\* priority 70, and the slightly-warm rule does not match; and in no
\* evaluation do the slightly-warm and the hot rule both match.
C8_GentleCoolBoundary ==
    result[Session].status # "none" =>
        /\ facts[Session] = facts_data(26, 50, "OCCUPIED", "AFTERNOON", FALSE)
               => /\ Returned(Session)
                  /\ result[Session].winning # None
                  /\ result[Session].winning.rule_name =
                         "Slightly warm (occupied) -> gentle cool"
                  /\ result[Session].winning.rule_priority = 60
                  /\ result[Session].action.mode = "COOL"
                  /\ result[Session].action.fan_speed = "LOW"
                  /\ result[Session].action.setpoint = PyInt(25)
                  /\ \A j \in 1..Len(result[Session].matched) :
                         result[Session].matched[j].rule_priority <= 60
        /\ facts[Session] = facts_data(28, 50, "OCCUPIED", "AFTERNOON", FALSE)
               => /\ Returned(Session)
                  /\ result[Session].winning # None
                  /\ result[Session].winning.rule_name = "Hot (occupied) -> cool"
                  /\ result[Session].winning.rule_priority = 70
                  /\ ~MatchedByName("Slightly warm (occupied) -> gentle cool")
        /\ ~(/\ MatchedByName("Slightly warm (occupied) -> gentle cool")
             /\ MatchedByName("Hot (occupied) -> cool"))

\* C8 witness: the evaluation at the boundary temperature 28.
C8_Witness ==
    /\ Returned(Session)
    /\ facts[Session] = facts_data(28, 50, "OCCUPIED", "AFTERNOON", FALSE)
    /\ MatchedByName("Hot (occupied) -> cool")

\* C8, the other case: the evaluation at temperature 26.
C8_WitnessGentle ==
    /\ Returned(Session)
    /\ facts[Session] = facts_data(26, 50, "OCCUPIED", "AFTERNOON", FALSE)
    /\ MatchedByName("Slightly warm (occupied) -> gentle cool")

\* C9: on the shipped catalog, for temperature 23, humidity 50, OCCUPIED,
\* MORNING, windows closed, no rule matches and the evaluation returns the
\* action OFF, LOW, no setpoint, "No matching rules", no matched rules and no
\* winner.
C9_Fallback ==
    (result[Session].status # "none"
        /\ facts[Session] = facts_data(23, 50, "OCCUPIED", "MORNING", FALSE))
    => /\ \A i \in 1..Len(rules) :
              check_rule_match(facts[Session], rules[i]) # "True"
       /\ result[Session] =
              [status |-> "returned",
               action |-> [mode |-> "OFF", fan_speed |-> "LOW",
                           setpoint |-> None, reason |-> "No matching rules"],
               matched |-> <<>>,
               winning |-> None]

\* C9 witness: that evaluation has been made.
C9_Witness ==
    /\ Returned(Session)
    /\ facts[Session] = facts_data(23, 50, "OCCUPIED", "MORNING", FALSE)
    /\ rules = DEFAULT_CONDITIONS

\* C10: no step of any call changes the shared catalog; no step of a call
\* changes the facts it was given; and every call that ends, however it was
\* interleaved with the other callers' calls and whatever calls came before
\* it, ends with the result of one whole uninterrupted call on its facts.
C10_Purity ==
    /\ [][rules' = rules]_vars
    /\ [][\A c \in Callers : pc[c] = "matching" => facts'[c] = facts[c]]_vars
    /\ [](\A c \in Callers :
             pc[c] = "done" => result[c] = execute_rules(facts[c], rules).ret)

\* C10 witness: caller 1 has returned two matched rules that its sort put in
\* the reverse of catalog order, while caller 2, on other facts, is in the
\* middle of its pass over the same catalog.
C10_Witness ==
    /\ pc[1] = "done"
    /\ Returned(1)
    /\ Len(rules) = 2
    /\ result[1].matched = <<rules[2], rules[1]>>
    /\ rules[1] # rules[2]
    /\ pc[2] = "matching"
    /\ idx[2] = 2
    /\ facts[2] # facts[1]

====
